---- MODULE Spec2Model ----
(***************************************************************************)
(* Log-Analyzer: the sensing layer (src/log_analyzer.py) and the two       *)
(* request paths of src/backend.py that feed it.                           *)
(*                                                                         *)
(* Text is a sequence of one-character strings, so that the regular        *)
(* expressions, json.loads, csv.DictReader and the f-strings of the code   *)
(* are computed character by character.                                    *)
(***************************************************************************)
EXTENDS Integers, Sequences, FiniteSets, TLC

VARIABLES
  raw_logs,      \* AdvancedLogAnalyzer.raw_logs of the live instance
  lines,         \* AdvancedLogAnalyzer.lines
  parsed_data,   \* AdvancedLogAnalyzer.parsed_data
  clusters,      \* the clusters local of the last analyze() run
  report,        \* what the last analyze() call returned (or raised)
  calls,         \* analyze() calls made on the live instance
  phase,         \* "idle" before construction, "live" after
  origin,        \* where the text of the live instance came from
  probe          \* inputs and results of the pure-function harnesses

vars == <<raw_logs, lines, parsed_data, clusters, report, calls, phase, origin, probe>>

(***************************************************************************)
(* Characters and character classes (the ASCII part of Python's classes).  *)
(***************************************************************************)
Digit == {"0", "1", "2", "3", "4", "5", "6", "7", "8", "9"}

LowerCase == {"a", "b", "c", "d", "e", "f", "g", "h", "i", "j", "k", "l", "m",
              "n", "o", "p", "q", "r", "s", "t", "u", "v", "w", "x", "y", "z"}

UpperCase == {"A", "B", "C", "D", "E", "F", "G", "H", "I", "J", "K", "L", "M",
              "N", "O", "P", "Q", "R", "S", "T", "U", "V", "W", "X", "Y", "Z"}

\* \w
WordChar == Digit \cup LowerCase \cup UpperCase \cup {"_"}

\* [0-9a-fA-F-]
HexHyphen == Digit \cup {"a", "b", "c", "d", "e", "f",
                         "A", "B", "C", "D", "E", "F", "-"}

\* \s, and the characters str.strip() removes
WhiteSpace == {" ", "\t", "\n", "\r"}

NL == "\n"

\* str.lower() on one character
LowerOf(c) ==
  CASE c = "A" -> "a" [] c = "B" -> "b" [] c = "C" -> "c" [] c = "D" -> "d"
    [] c = "E" -> "e" [] c = "F" -> "f" [] c = "G" -> "g" [] c = "H" -> "h"
    [] c = "I" -> "i" [] c = "J" -> "j" [] c = "K" -> "k" [] c = "L" -> "l"
    [] c = "M" -> "m" [] c = "N" -> "n" [] c = "O" -> "o" [] c = "P" -> "p"
    [] c = "Q" -> "q" [] c = "R" -> "r" [] c = "S" -> "s" [] c = "T" -> "t"
    [] c = "U" -> "u" [] c = "V" -> "v" [] c = "W" -> "w" [] c = "X" -> "x"
    [] c = "Y" -> "y" [] c = "Z" -> "z" [] OTHER -> c

\* a sequence given as a function on 1..n, with its values evaluated once
Tuple(f) == f \o <<>>

\* Body of a value that is computed once: a local name for the value
Bind(value, Body(_)) == Body(value)

\* str.lower()
Lower(s) == Tuple([i \in 1..Len(s) |-> LowerOf(s[i])])

(***************************************************************************)
(* Scanning helpers.  First is the least index in lo..hi satisfying P, or  *)
(* hi+1 when there is none.                                                *)
(***************************************************************************)
First(lo, hi, P(_)) ==
  LET hits == {j \in lo..hi : P(j)}
  IN  IF hits = {} THEN hi + 1 ELSE CHOOSE j \in hits : \A k \in hits : j <= k

\* the greatest index in lo..hi satisfying P, or lo-1 when there is none
Last(lo, hi, P(_)) == lo + hi - First(lo, hi, LAMBDA j : P(lo + hi - j))

InAt(s, i, C) == i \in 1..Len(s) /\ s[i] \in C

CharAt(s, i, c) == i \in 1..Len(s) /\ s[i] = c

\* the last index of the maximal run of class C that starts at i (i-1: no run)
RunEnd(s, i, C) == First(i, Len(s), LAMBDA j : s[j] \notin C) - 1

\* s[i:] starts with w
StartsAt(s, i, w) ==
  /\ i >= 1
  /\ i + Len(w) - 1 <= Len(s)
  /\ \A k \in 1..Len(w) : s[i + k - 1] = w[k]

\* w in s
Contains(s, w) == \E i \in 1..(Len(s) + 1) : StartsAt(s, i, w)

\* s[i:] from a 1-based index
From(s, i) == SubSeq(s, i, Len(s))

\* str.strip()
Strip(s) ==
  SubSeq(s, First(1, Len(s), LAMBDA j : s[j] \notin WhiteSpace),
            Last(1, Len(s), LAMBDA j : s[j] \notin WhiteSpace))

\* the k-th least element of a finite set of integers
Nth(S, k) == CHOOSE x \in S : Cardinality({y \in S : y < x}) = k - 1

\* str.split('\n')
SplitLines(s) ==
  Bind({i \in 1..Len(s) : s[i] = NL}, LAMBDA cuts :
    LET cut(k) == IF k = 0 THEN 0
                  ELSE IF k > Cardinality(cuts) THEN Len(s) + 1
                  ELSE Nth(cuts, k)
    IN  Tuple([k \in 1..(Cardinality(cuts) + 1) |->
                 SubSeq(s, cut(k - 1) + 1, cut(k) - 1)]))

RECURSIVE JoinWith(_, _)
\* sep.join(parts)
JoinWith(parts, sep) ==
  IF Len(parts) = 0 THEN <<>>
  ELSE IF Len(parts) = 1 THEN parts[1]
  ELSE JoinWith(SubSeq(parts, 1, Len(parts) - 1), sep) \o sep \o parts[Len(parts)]

\* s * n
Repeat(s, n) == IF n <= 0 THEN <<>> ELSE Tuple([i \in 1..(n * Len(s)) |-> s[((i - 1) % Len(s)) + 1]])

RECURSIVE DigitsOf(_)
\* str(n) for an integer n >= 0
DigitsOf(n) ==
  LET d == <<"0", "1", "2", "3", "4", "5", "6", "7", "8", "9">>
  IN  IF n < 10 THEN <<d[n + 1]>> ELSE Append(DigitsOf(n \div 10), d[(n % 10) + 1])

\* the value of one decimal digit
DigitValue(c) ==
  CASE c = "0" -> 0 [] c = "1" -> 1 [] c = "2" -> 2 [] c = "3" -> 3 [] c = "4" -> 4
    [] c = "5" -> 5 [] c = "6" -> 6 [] c = "7" -> 7 [] c = "8" -> 8 [] c = "9" -> 9

RECURSIVE DecimalValue(_)
\* the number a run of decimal digits writes
DecimalValue(ds) ==
  IF Len(ds) = 0 THEN 0
  ELSE 10 * DecimalValue(SubSeq(ds, 1, Len(ds) - 1)) + DigitValue(ds[Len(ds)])

(***************************************************************************)
(* The mask table of _cluster_logs.  RuleEnd(k, s, i) is the last index of *)
(* the text rule k matches at index i, or 0 when it does not match there.  *)
(***************************************************************************)
\* \b before index i
Boundary(s, i) == InAt(s, i - 1, WordChar) # InAt(s, i, WordChar)

UuidLen == 36

\* \b\d+\.\d+\.\d+\.\d+\b
IpEnd(s, i) ==
  LET num(j) == IF j # 0 /\ InAt(s, j, Digit) THEN RunEnd(s, j, Digit) ELSE 0
      dot(e) == IF e # 0 /\ CharAt(s, e + 1, ".") THEN e + 2 ELSE 0
  IN  Bind(num(dot(num(dot(num(dot(num(i))))))), LAMBDA e4 :
        IF Boundary(s, i) /\ e4 # 0 /\ Boundary(s, e4 + 1) THEN e4 ELSE 0)

\* \b[0-9a-fA-F-]{36}\b
UuidEnd(s, i) ==
  LET e == i + UuidLen - 1
  IN  IF /\ e <= Len(s)
         /\ Boundary(s, i)
         /\ \A j \in i..e : s[j] \in HexHyphen
         /\ Boundary(s, e + 1)
      THEN e ELSE 0

\* \b\d+\b
NumEnd(s, i) ==
  Bind(RunEnd(s, i, Digit), LAMBDA e :
    IF Boundary(s, i) /\ e >= i /\ Boundary(s, e + 1) THEN e ELSE 0)

\* '.*?'
QuotedEnd(s, i) ==
  Bind(First(i + 1, Len(s), LAMBDA j : s[j] \in {"'", NL}), LAMBDA e :
    IF CharAt(s, i, "'") /\ CharAt(s, e, "'") THEN e ELSE 0)

\* the table without its rule for numbers
mask_patterns_without_num ==
  << [pattern |-> "ip",     mask |-> <<"{", "I", "P", "}">>],
     [pattern |-> "uuid",   mask |-> <<"{", "U", "U", "I", "D", "}">>],
     [pattern |-> "quoted", mask |-> <<"'", "{", "S", "T", "R", "}", "'">>] >>

mask_patterns ==
  << [pattern |-> "ip",     mask |-> <<"{", "I", "P", "}">>],
     [pattern |-> "uuid",   mask |-> <<"{", "U", "U", "I", "D", "}">>],
     [pattern |-> "num",    mask |-> <<"{", "N", "U", "M", "}">>],
     [pattern |-> "quoted", mask |-> <<"'", "{", "S", "T", "R", "}", "'">>] >>

RuleEnd(pattern, s, i) ==
  CASE pattern = "ip"     -> IpEnd(s, i)
    [] pattern = "uuid"   -> UuidEnd(s, i)
    [] pattern = "num"    -> NumEnd(s, i)
    [] pattern = "quoted" -> QuotedEnd(s, i)

\* the leftmost match of the rule from position pos on: [first, last], with
\* first > Len(s) when there is none
LeftmostMatch(pattern, s, pos) ==
  Bind(First(pos, Len(s), LAMBDA j : RuleEnd(pattern, s, j) # 0), LAMBDA b :
    [first |-> b, last |-> IF b > Len(s) THEN b ELSE RuleEnd(pattern, s, b)])

RECURSIVE ReSubFrom(_, _, _, _)
\* re.sub from position pos on: every non-overlapping match, leftmost first
ReSubFrom(pattern, mask, s, pos) ==
  Bind(LeftmostMatch(pattern, s, pos), LAMBDA m :
    IF m.first > Len(s) THEN SubSeq(s, pos, Len(s))
    ELSE SubSeq(s, pos, m.first - 1) \o mask
           \o ReSubFrom(pattern, mask, s, m.last + 1))

\* re.sub where only the first match is replaced
ReSubFirstOnly(pattern, mask, s) ==
  Bind(LeftmostMatch(pattern, s, 1), LAMBDA m :
    IF m.first > Len(s) THEN s
    ELSE SubSeq(s, 1, m.first - 1) \o mask \o From(s, m.last + 1))

\* re.sub(pattern, mask, s)
ReSub(pattern, mask, s) == ReSubFrom(pattern, mask, s, 1)

RECURSIVE MaskFrom(_, _)
\* the loop over mask_patterns, from rule k on
MaskFrom(s, k) ==
  IF k > Len(mask_patterns) THEN s
  ELSE MaskFrom(ReSub(mask_patterns[k].pattern, mask_patterns[k].mask, s), k + 1)

\* masked_msg of _cluster_logs
Mask(message) == MaskFrom(message, 1)

(***************************************************************************)
(* _parse_lines: the line pattern                                          *)
(*   \[(.*?)\]\s+\[(\w+)\]\s+(?:\[(.*?)\]\s+)?  then the rest as message  *)
(* matched at the start of the stripped line.  A line holds no newline.    *)
(***************************************************************************)
\* \]\s+\[(\w+)\]\s+ matched from the "]" at index t: the last index of the
\* second \s+ run, or 0 when it does not match there
LevelEnd(s, t) ==
  Bind(RunEnd(s, t + 1, WhiteSpace), LAMBDA w1 :
  Bind(RunEnd(s, w1 + 2, WordChar), LAMBDA l1 :
  Bind(RunEnd(s, l1 + 2, WhiteSpace), LAMBDA w2 :
    IF /\ CharAt(s, t, "]")
       /\ w1 >= t + 1
       /\ CharAt(s, w1 + 1, "[")
       /\ l1 >= w1 + 2
       /\ CharAt(s, l1 + 1, "]")
       /\ w2 >= l1 + 2
    THEN w2 ELSE 0)))

\* the groups once \[(.*?)\]\s+\[(\w+)\]\s+ has matched with its first "]"
\* at index t and its last white space at w2.  The optional group
\* \[(.*?)\]\s+ at w2+1 ends at the first "]" that white space follows.
GroupsOf(s, t, w2) ==
  Bind(RunEnd(s, t + 1, WhiteSpace), LAMBDA w1 :
  Bind(First(w2 + 2, Len(s),
             LAMBDA j : s[j] = "]" /\ InAt(s, j + 1, WhiteSpace)), LAMBDA c :
    Bind(CharAt(s, w2 + 1, "[") /\ c <= Len(s), LAMBDA hasComponent :
      [ok        |-> TRUE,
       timestamp |-> SubSeq(s, 2, t - 1),
       level     |-> SubSeq(s, w1 + 2, RunEnd(s, w1 + 2, WordChar)),
       component |-> IF hasComponent THEN SubSeq(s, w2 + 2, c - 1) ELSE <<>>,
       message   |-> IF hasComponent
                     THEN From(s, RunEnd(s, c + 1, WhiteSpace) + 1)
                     ELSE From(s, w2 + 1)])))

\* log_pattern.match(s): [ok, timestamp, level, component, message], where
\* component is <<>> when the optional group took no part
LogPatternMatch(s) ==
  Bind(First(2, Len(s), LAMBDA j : LevelEnd(s, j) # 0), LAMBDA t :
    IF ~CharAt(s, 1, "[") \/ t > Len(s)
    THEN [ok |-> FALSE, timestamp |-> <<>>, level |-> <<>>,
          component |-> <<>>, message |-> <<>>]
    ELSE GroupsOf(s, t, LevelEnd(s, t)))

\* the entry _parse_lines appends for a line its pattern matches as m
EntryFrom(m, line) ==
  [timestamp |-> m.timestamp,
   level     |-> m.level,
   component |-> IF m.component = <<>> THEN <<"S", "y", "s", "t", "e", "m">> ELSE m.component,
   message   |-> m.message,
   raw       |-> line]

\* the entries of the matching lines, in order
ParsedFrom(ls) ==
  Bind(Tuple([k \in 1..Len(ls) |-> LogPatternMatch(Strip(ls[k]))]), LAMBDA ms :
    Bind(SelectSeq([k \in 1..Len(ls) |-> k], LAMBDA k : ms[k].ok), LAMBDA at :
      Tuple([k \in 1..Len(at) |-> EntryFrom(ms[at[k]], ls[at[k]])])))

\* _parse_lines: appends to self.parsed_data, which only __init__ resets
parse_lines(data, ls) == data \o ParsedFrom(ls)

(***************************************************************************)
(* _cluster_logs.  The dict of clusters is a sequence of [key, value] in   *)
(* insertion order.                                                        *)
(***************************************************************************)
TopN == 20

\* signature = f"[{entry['level']}] {masked_msg}"
Signature(level, masked_msg) == <<"[">> \o level \o <<"]", " ">> \o masked_msg

\* the positions of the entries filed under the signature, in order
PositionsOf(signatures, signature) ==
  SelectSeq([j \in 1..Len(signatures) |-> j],
            LAMBDA j : signatures[j] = signature)

\* a count that leaves out the entry that created the cluster
CountAfterFirst(signatures, signature) ==
  Len(PositionsOf(signatures, signature)) - 1

\* clusters[signature]["count"] after the loop: 0, then 1 more per entry
CountOf(signatures, signature) == Len(PositionsOf(signatures, signature))

\* the value of the cluster whose first entry is entry i
ClusterOf(data, masked, signatures, i) ==
  Bind(PositionsOf(signatures, signatures[i]), LAMBDA at :
    [pattern    |-> masked[i],
     level      |-> data[i].level,
     count      |-> CountOf(signatures, signatures[i]),
     example    |-> data[i].message,
     timestamps |-> Tuple([t \in 1..Len(at) |-> data[at[t]].timestamp])])

\* the positions of the entries that bring a signature no earlier entry has
FirstsOf(signatures) ==
  SelectSeq([i \in 1..Len(signatures) |-> i],
            LAMBDA i : \A j \in 1..(i - 1) : signatures[j] # signatures[i])

\* the dict after the loop over parsed_data: one cluster per signature, in
\* the order of the first entry of each
ClusterDict(data) ==
  Bind(Tuple([i \in 1..Len(data) |-> Mask(data[i].message)]), LAMBDA masked :
  Bind(Tuple([i \in 1..Len(data) |-> Signature(data[i].level, masked[i])]),
       LAMBDA signatures :
    Bind(FirstsOf(signatures), LAMBDA firsts :
      Tuple([k \in 1..Len(firsts) |->
               [key   |-> signatures[firsts[k]],
                value |-> ClusterOf(data, masked, signatures, firsts[k])]]))))

\* sorted(values, key=count, reverse=True): stable, so equal counts keep
\* their insertion order
SortedByCount(values) ==
  LET n == Len(values)
      before(i, j) == \/ values[i].count > values[j].count
                      \/ values[i].count = values[j].count /\ i < j
      rank(j) == Cardinality({i \in 1..n : before(i, j)}) + 1
  IN  Tuple([r \in 1..n |-> values[CHOOSE j \in 1..n : rank(j) = r]])

\* seq[:n]
Take(seq, n) == SubSeq(seq, 1, IF Len(seq) < n THEN Len(seq) ELSE n)

\* _cluster_logs
cluster_logs(data) ==
  Bind(ClusterDict(data), LAMBDA dict :
    Take(SortedByCount(Tuple([k \in 1..Len(dict) |-> dict[k].value])), TopN))

\* the number of distinct signatures among the entries
DistinctSignatures(data) == Len(ClusterDict(data))

(***************************************************************************)
(* _extract_metrics.  A search gives the digits group(1) of the leftmost   *)
(* match, or <<>> when the message has no match.                           *)
(***************************************************************************)
\* \s*(\d+) from index i: the first and last index of the digits (last < first: none)
NumberAt(s, i) ==
  LET w == RunEnd(s, i, WhiteSpace)
  IN  [first |-> w + 1, last |-> RunEnd(s, w + 1, Digit)]

\* the digits of the number, <<>> when what follows the keyword is no number
\* or the text after the number is not the suffix
DigitsAt(s, low, i, suffix) ==
  Bind(NumberAt(s, i), LAMBDA num :
    IF num.last >= num.first /\ StartsAt(low, num.last + 1, suffix)
    THEN SubSeq(s, num.first, num.last) ELSE <<>>)

\* the digits at the leftmost index where the keyword and a number with the
\* suffix follow; Keyword(i) is the length of the keyword at i, 0 for none
SearchNumber(s, low, Keyword(_), suffix) ==
  LET hit(i) == Keyword(i) # 0 /\ DigitsAt(s, low, i + Keyword(i), suffix) # <<>>
  IN  Bind(First(1, Len(s), hit), LAMBDA b :
        IF b > Len(s) THEN <<>> ELSE DigitsAt(s, low, b + Keyword(b), suffix))

\* re.search(r'CPU:\s*(\d+)%', msg)
CpuSearch(msg) ==
  SearchNumber(msg, msg, LAMBDA i : IF StartsAt(msg, i, <<"C", "P", "U", ":">>) THEN 4 ELSE 0,
               <<"%">>)

\* re.search(r'MEM:\s*(\d+)', msg)
MemSearch(msg) ==
  SearchNumber(msg, msg, LAMBDA i : IF StartsAt(msg, i, <<"M", "E", "M", ":">>) THEN 4 ELSE 0,
               <<>>)

\* the length of the keyword of (?:Duration|latency|time): at index i, 0: none
LatencyKeyword(low, i) ==
  IF StartsAt(low, i, <<"d", "u", "r", "a", "t", "i", "o", "n", ":">>) THEN 9
  ELSE IF StartsAt(low, i, <<"l", "a", "t", "e", "n", "c", "y", ":">>) THEN 8
  ELSE IF StartsAt(low, i, <<"t", "i", "m", "e", ":">>) THEN 5
  ELSE 0

\* re.search(r'(?:Duration|latency|time):\s*(\d+)ms', msg, re.IGNORECASE)
LatencySearch(msg) ==
  Bind(Lower(msg), LAMBDA low :
    SearchNumber(msg, low, LAMBDA i : LatencyKeyword(low, i), <<"m", "s">>))

\* int() refuses a longer run of digits with ValueError
\* (sys.int_info.default_max_str_digits of CPython)
IntMaxStrDigits == 4300

IntRaises(ds) == Len(ds) > IntMaxStrDigits

\* int(ds)
IntOf(ds) == DecimalValue(ds)

\* what the three searches of the loop body find in each entry
Found(data) ==
  Tuple([k \in 1..Len(data) |->
           [cpu     |-> CpuSearch(data[k].message),
            mem     |-> MemSearch(data[k].message),
            latency |-> LatencySearch(data[k].message)]])

\* whether a conversion of the loop over parsed_data raises
ExtractRaises(found) ==
  \E k \in 1..Len(found) :
    IntRaises(found[k].cpu) \/ IntRaises(found[k].mem) \/ IntRaises(found[k].latency)

\* the series of one metric over the entries: "cpu", "mem" or "latency"
Series(found, metric) ==
  Bind(SelectSeq([k \in 1..Len(found) |-> found[k][metric]],
                 LAMBDA ds : ds # <<>>), LAMBDA digits :
    Tuple([k \in 1..Len(digits) |-> IntOf(digits[k])]))

RECURSIVE Sum(_)
Sum(values) == IF Len(values) = 0 THEN 0 ELSE Sum(Tail(values)) + Head(values)

\* max(values)
Max(values) == CHOOSE m \in {values[i] : i \in 1..Len(values)} :
                 \A i \in 1..Len(values) : values[i] <= m

\* round(statistics.mean(values), 2), in hundredths; an exact half goes to the
\* even hundredth (with fewer than 40 values an exact half is a multiple of
\* 1/8, which a float holds exactly)
Mean2(values) ==
  Bind(100 * Sum(values), LAMBDA total :
    LET n == Len(values)
        q == total \div n
        r == total % n
    IN  IF 2 * r < n THEN q
        ELSE IF 2 * r > n THEN q + 1
        ELSE IF q % 2 = 0 THEN q ELSE q + 1)

\* the metrics dict of the three series; the averages are in hundredths
MetricsOf(cpu_values, mem_values, latency_values) ==
  [avg_cpu        |-> IF cpu_values # <<>> THEN Mean2(cpu_values) ELSE 0,
   max_cpu        |-> IF cpu_values # <<>> THEN Max(cpu_values) ELSE 0,
   avg_memory     |-> IF mem_values # <<>> THEN Mean2(mem_values) ELSE 0,
   max_latency    |-> IF latency_values # <<>> THEN Max(latency_values) ELSE 0,
   metric_points  |-> Len(cpu_values),
   cpu_series     |-> cpu_values,
   memory_series  |-> mem_values,
   latency_series |-> latency_values]

\* _extract_metrics, when no conversion raises
extract_metrics(data) ==
  Bind(Found(data), LAMBDA found :
    MetricsOf(Series(found, "cpu"), Series(found, "mem"), Series(found, "latency")))

\* whether _extract_metrics without its "if ... else 0" guards raises:
\* statistics.mean and max refuse an empty series
UnguardedRaises(data) ==
  Bind(Found(data), LAMBDA found :
    \/ ExtractRaises(found)
    \/ \E metric \in {"cpu", "mem", "latency"} : Series(found, metric) = <<>>)

\* whether _extract_metrics raises
extract_metrics_raises(data) == ExtractRaises(Found(data))

(***************************************************************************)
(* _detect_anomalies, _find_correlations, _calculate_health                *)
(***************************************************************************)
CpuThreshold == 80

LatencyThreshold == 2000

CpuAnomaly(value) == <<"C", "r", "i", "t", "i", "c", "a", "l", " ", "C", "P", "U", " ", "S", "p", "i", "k", "e", " ", "d", "e", "t", "e", "c", "t", "e", "d", ":", " ">> \o DigitsOf(value) \o <<"%">>

LatencyAnomaly(value) == <<"H", "i", "g", "h", " ", "L", "a", "t", "e", "n", "c", "y", " ", "d", "e", "t", "e", "c", "t", "e", "d", ":", " ">> \o DigitsOf(value) \o <<"m", "s">>

\* _detect_anomalies with the thresholds taken inclusive
detect_anomalies_inclusive(metrics) ==
  (IF metrics.max_cpu >= CpuThreshold THEN <<CpuAnomaly(metrics.max_cpu)>> ELSE <<>>)
  \o (IF metrics.max_latency >= LatencyThreshold
      THEN <<LatencyAnomaly(metrics.max_latency)>> ELSE <<>>)

\* _detect_anomalies
detect_anomalies(metrics) ==
  (IF metrics.max_cpu > CpuThreshold THEN <<CpuAnomaly(metrics.max_cpu)>> ELSE <<>>)
  \o (IF metrics.max_latency > LatencyThreshold
      THEN <<LatencyAnomaly(metrics.max_latency)>> ELSE <<>>)

Correlation == <<"S", "t", "r", "o", "n", "g", " ", "c", "o", "r", "r", "e", "l", "a", "t", "i", "o", "n", ":", " ", "D", "a", "t", "a", "b", "a", "s", "e", " ", "E", "r", "r", "o", "r", "s", " ", "a", "r", "e", " ", "l", "i", "k", "e", "l", "y", " ", "c", "a", "u", "s", "i", "n", "g", " ", "L", "a", "t", "e", "n", "c", "y", " ", "s", "p", "i", "k", "e", "s", ".">>

\* _find_correlations with 'database' looked for in the pattern as written
find_correlations_case_sensitive(anomalies, cs) ==
  LET has_latency   == \E k \in 1..Len(anomalies) : Contains(anomalies[k], <<"L", "a", "t", "e", "n", "c", "y">>)
      has_db_errors == \E k \in 1..Len(cs) :
                         /\ Contains(cs[k].pattern, <<"d", "a", "t", "a", "b", "a", "s", "e">>)
                         /\ cs[k].level = <<"E", "R", "R", "O", "R">>
  IN  IF has_latency /\ has_db_errors THEN <<Correlation>> ELSE <<>>

\* _find_correlations
find_correlations(anomalies, cs) ==
  LET has_latency   == \E k \in 1..Len(anomalies) : Contains(anomalies[k], <<"L", "a", "t", "e", "n", "c", "y">>)
      has_db_errors == \E k \in 1..Len(cs) :
                         /\ Contains(Lower(cs[k].pattern), <<"d", "a", "t", "a", "b", "a", "s", "e">>)
                         /\ cs[k].level = <<"E", "R", "R", "O", "R">>
  IN  IF has_latency /\ has_db_errors THEN <<Correlation>> ELSE <<>>

ErrorPenalty == 5

AnomalyPenalty == 10

FullScore == 100

RECURSIVE TotalErrors(_, _)
\* sum(c['count'] for c in clusters if c['level'] in ['ERROR', 'CRITICAL'])
TotalErrors(cs, n) ==
  IF n = 0 THEN 0
  ELSE TotalErrors(cs, n - 1)
       + (IF cs[n].level \in {<<"E", "R", "R", "O", "R">>, <<"C", "R", "I", "T", "I", "C", "A", "L">>} THEN cs[n].count ELSE 0)

\* _calculate_health without the clamp at 0
calculate_health_unclamped(cs, anomalies) ==
  FullScore - TotalErrors(cs, Len(cs)) * ErrorPenalty
            - Len(anomalies) * AnomalyPenalty

\* _calculate_health
calculate_health(cs, anomalies) ==
  LET score == FullScore - TotalErrors(cs, Len(cs)) * ErrorPenalty
                         - Len(anomalies) * AnomalyPenalty
  IN  IF score > 0 THEN score ELSE 0

(***************************************************************************)
(* json.loads.  A JSON value is <<"str", text>>, <<"int", n>>,             *)
(* <<"float", lexeme>>, <<"true">>, <<"false">>, <<"null">>, <<"nan">>,    *)
(* <<"inf">>, <<"-inf">>, <<"list", items>> or <<"dict", members>>, the    *)
(* members a sequence of <<key, value>> in insertion order.  A parse gives *)
(* [ok, v, next]: the value and the index after it.  The escapes \b, \f    *)
(* and \u of a JSON string are not decoded: a text that holds one is       *)
(* outside the model.                                                      *)
(***************************************************************************)
Fail == [ok |-> FALSE, v |-> <<"null">>, next |-> 0]

Ok(v, next) == [ok |-> TRUE, v |-> v, next |-> next]

ControlChars == {"\n", "\t", "\r"}

SkipWs(s, p) == First(p, Len(s), LAMBDA j : s[j] \notin WhiteSpace)

Unescape(c) ==
  CASE c = "n" -> "\n" [] c = "t" -> "\t" [] c = "r" -> "\r" [] OTHER -> c

RECURSIVE JsonStringFrom(_, _)
\* the string whose opening quote is before index p
JsonStringFrom(s, p) ==
  Bind(First(p, Len(s), LAMBDA j : s[j] \in ({"\"", "\\"} \cup ControlChars)),
       LAMBDA b :
    IF b > Len(s) THEN Fail
    ELSE IF s[b] = "\"" THEN Ok(SubSeq(s, p, b - 1), b + 1)
    ELSE IF s[b] = "\\" /\ InAt(s, b + 1, {"\"", "\\", "/", "n", "t", "r"})
         THEN Bind(JsonStringFrom(s, b + 2), LAMBDA rest :
                IF rest.ok
                THEN Ok(SubSeq(s, p, b - 1) \o <<Unescape(s[b + 1])>> \o rest.v,
                        rest.next)
                ELSE Fail)
    ELSE Fail)

\* the number whose integer part is s[i..intEnd] and whose last character
\* is at expEnd
NumberValue(s, p, i, intEnd, expEnd) ==
  IF expEnd # intEnd THEN Ok(<<"float", SubSeq(s, p, expEnd)>>, expEnd + 1)
  ELSE IF IntRaises(SubSeq(s, i, intEnd)) THEN Fail
  ELSE Ok(<<"int", IF i = p THEN IntOf(SubSeq(s, i, intEnd))
                   ELSE 0 - IntOf(SubSeq(s, i, intEnd))>>, intEnd + 1)

\* NUMBER_RE of json.scanner: (-?(?:0|[1-9]\d*))(\.\d+)?([eE][-+]?\d+)?
JsonNumber(s, p) ==
  Bind(IF CharAt(s, p, "-") THEN p + 1 ELSE p, LAMBDA i :
  Bind(IF CharAt(s, i, "0") THEN i
       ELSE IF InAt(s, i, Digit) THEN RunEnd(s, i, Digit) ELSE 0, LAMBDA intEnd :
  Bind(IF CharAt(s, intEnd + 1, ".") /\ InAt(s, intEnd + 2, Digit)
       THEN RunEnd(s, intEnd + 2, Digit) ELSE intEnd, LAMBDA fracEnd :
  Bind(IF InAt(s, fracEnd + 1, {"e", "E"})
       THEN IF InAt(s, fracEnd + 2, {"+", "-"}) THEN fracEnd + 3 ELSE fracEnd + 2
       ELSE 0, LAMBDA expStart :
    IF intEnd = 0 THEN Fail
    ELSE NumberValue(s, p, i, intEnd,
                     IF expStart # 0 /\ InAt(s, expStart, Digit)
                     THEN RunEnd(s, expStart, Digit) ELSE fracEnd)))))

\* the constants the scanner tries once no number matches
JsonConstant(s, p) ==
  IF StartsAt(s, p, <<"N", "a", "N">>) THEN Ok(<<"nan">>, p + 3)
  ELSE IF StartsAt(s, p, <<"I", "n", "f", "i", "n", "i", "t", "y">>) THEN Ok(<<"inf">>, p + 8)
  ELSE IF StartsAt(s, p, <<"-", "I", "n", "f", "i", "n", "i", "t", "y">>) THEN Ok(<<"-inf">>, p + 9)
  ELSE Fail

\* d[key] = value on the members of a dict
DictSet(members, key, value) ==
  Bind(First(1, Len(members), LAMBDA j : members[j][1] = key), LAMBDA k :
    IF k > Len(members) THEN Append(members, <<key, value>>)
    ELSE [members EXCEPT ![k] = <<key, value>>])

RECURSIVE JsonValue(_, _), JsonItems(_, _, _), JsonMembers(_, _, _)
\* the value that starts at index p
JsonValue(s, p) ==
  IF p > Len(s) THEN Fail
  ELSE IF s[p] = "\""
       THEN Bind(JsonStringFrom(s, p + 1), LAMBDA r :
              IF r.ok THEN Ok(<<"str", r.v>>, r.next) ELSE Fail)
  ELSE IF s[p] = "{"
       THEN Bind(SkipWs(s, p + 1), LAMBDA q :
              IF CharAt(s, q, "}") THEN Ok(<<"dict", <<>>>>, q + 1)
              ELSE JsonMembers(s, q, <<>>))
  ELSE IF s[p] = "["
       THEN Bind(SkipWs(s, p + 1), LAMBDA q :
              IF CharAt(s, q, "]") THEN Ok(<<"list", <<>>>>, q + 1)
              ELSE JsonItems(s, q, <<>>))
  ELSE IF StartsAt(s, p, <<"n", "u", "l", "l">>) THEN Ok(<<"null">>, p + 4)
  ELSE IF StartsAt(s, p, <<"t", "r", "u", "e">>) THEN Ok(<<"true">>, p + 4)
  ELSE IF StartsAt(s, p, <<"f", "a", "l", "s", "e">>) THEN Ok(<<"false">>, p + 5)
  ELSE Bind(JsonNumber(s, p), LAMBDA n : IF n.ok THEN n ELSE JsonConstant(s, p))

\* the rest of an array: a value at p, then "," and more, or "]"
JsonItems(s, p, acc) ==
  Bind(JsonValue(s, p), LAMBDA v :
  Bind(SkipWs(s, v.next), LAMBDA q :
    IF ~v.ok THEN Fail
    ELSE IF CharAt(s, q, "]") THEN Ok(<<"list", Append(acc, v.v)>>, q + 1)
    ELSE IF CharAt(s, q, ",") THEN JsonItems(s, SkipWs(s, q + 1), Append(acc, v.v))
    ELSE Fail))

\* the rest of an object: a "key": value pair at p, then "," and more, or "}"
JsonMembers(s, p, acc) ==
  Bind(IF CharAt(s, p, "\"") THEN JsonStringFrom(s, p + 1) ELSE Fail, LAMBDA key :
  Bind(SkipWs(s, key.next), LAMBDA c :
  Bind(IF key.ok /\ CharAt(s, c, ":") THEN JsonValue(s, SkipWs(s, c + 1)) ELSE Fail,
       LAMBDA v :
  Bind(SkipWs(s, v.next), LAMBDA q :
  Bind(DictSet(acc, key.v, v.v), LAMBDA members :
    IF ~v.ok THEN Fail
    ELSE IF CharAt(s, q, "}") THEN Ok(<<"dict", members>>, q + 1)
    ELSE IF CharAt(s, q, ",") THEN JsonMembers(s, SkipWs(s, q + 1), members)
    ELSE Fail)))))

\* json.loads(s): ok is FALSE where it raises
json_loads(s) ==
  Bind(JsonValue(s, SkipWs(s, 1)), LAMBDA v :
    IF v.ok /\ SkipWs(s, v.next) > Len(s) THEN v ELSE Fail)

(***************************************************************************)
(* str(), repr(), json.dumps() and truth of a value                        *)
(***************************************************************************)
\* what follows the backslash of an escaped character
Escaped(c) ==
  CASE c = "\n" -> "n" [] c = "\t" -> "t" [] c = "\r" -> "r" [] OTHER -> c

RECURSIVE EscapeFrom(_, _, _)
\* s[pos:] with a backslash put before every character of the set quoted and
\* the control characters written \n, \t, \r
EscapeFrom(s, pos, quoted) ==
  Bind(First(pos, Len(s), LAMBDA j : s[j] \in (quoted \cup ControlChars)),
       LAMBDA b :
    IF b > Len(s) THEN SubSeq(s, pos, Len(s))
    ELSE SubSeq(s, pos, b - 1) \o <<"\\", Escaped(s[b])>>
           \o EscapeFrom(s, b + 1, quoted))

\* json.dumps of a str
JsonDumpsStr(s) == <<"\"">> \o EscapeFrom(s, 1, {"\"", "\\"}) \o <<"\"">>

\* repr of a str
PyReprStr(s) ==
  IF Contains(s, <<"'">>) /\ ~Contains(s, <<"\"">>)
  THEN <<"\"">> \o EscapeFrom(s, 1, {"\\"}) \o <<"\"">>
  ELSE <<"'">> \o EscapeFrom(s, 1, {"'", "\\"}) \o <<"'">>

\* str of an int
IntStr(n) == IF n < 0 THEN <<"-">> \o DigitsOf(0 - n) ELSE DigitsOf(n)

RECURSIVE JsonDumps(_)
\* json.dumps(v)
JsonDumps(v) ==
  CASE v[1] = "str"   -> JsonDumpsStr(v[2])
    [] v[1] = "int"   -> IntStr(v[2])
    [] v[1] = "float" -> v[2]
    [] v[1] = "true"  -> <<"t", "r", "u", "e">>
    [] v[1] = "false" -> <<"f", "a", "l", "s", "e">>
    [] v[1] = "null"  -> <<"n", "u", "l", "l">>
    [] v[1] = "nan"   -> <<"N", "a", "N">>
    [] v[1] = "inf"   -> <<"I", "n", "f", "i", "n", "i", "t", "y">>
    [] v[1] = "-inf"  -> <<"-", "I", "n", "f", "i", "n", "i", "t", "y">>
    [] v[1] = "list"  ->
         <<"[">> \o JoinWith([k \in 1..Len(v[2]) |-> JsonDumps(v[2][k])], <<",", " ">>) \o <<"]">>
    [] v[1] = "dict"  ->
         <<"{">> \o JoinWith([k \in 1..Len(v[2]) |->
                             JsonDumpsStr(v[2][k][1]) \o <<":", " ">> \o JsonDumps(v[2][k][2])],
                          <<",", " ">>) \o <<"}">>

RECURSIVE PyRepr(_)
\* repr(v); a float lexeme is taken to be in repr form already
PyRepr(v) ==
  CASE v[1] = "str"   -> PyReprStr(v[2])
    [] v[1] = "int"   -> IntStr(v[2])
    [] v[1] = "float" -> v[2]
    [] v[1] = "true"  -> <<"T", "r", "u", "e">>
    [] v[1] = "false" -> <<"F", "a", "l", "s", "e">>
    [] v[1] = "null"  -> <<"N", "o", "n", "e">>
    [] v[1] = "nan"   -> <<"n", "a", "n">>
    [] v[1] = "inf"   -> <<"i", "n", "f">>
    [] v[1] = "-inf"  -> <<"-", "i", "n", "f">>
    [] v[1] = "list"  ->
         <<"[">> \o JoinWith([k \in 1..Len(v[2]) |-> PyRepr(v[2][k])], <<",", " ">>) \o <<"]">>
    [] v[1] = "dict"  ->
         <<"{">> \o JoinWith([k \in 1..Len(v[2]) |->
                             PyReprStr(v[2][k][1]) \o <<":", " ">> \o PyRepr(v[2][k][2])],
                          <<",", " ">>) \o <<"}">>

\* str(v), and what an f-string puts for {v}
PyStr(v) == IF v[1] = "str" THEN v[2] ELSE PyRepr(v)

\* bool(v); a float is taken to be non-zero
Truthy(v) ==
  CASE v[1] = "str"   -> v[2] # <<>>
    [] v[1] = "int"   -> v[2] # 0
    [] v[1] = "list"  -> v[2] # <<>>
    [] v[1] = "dict"  -> v[2] # <<>>
    [] v[1] \in {"false", "null"} -> FALSE
    [] OTHER -> TRUE

\* d.get(key), None when the key is absent
Get(members, key) ==
  Bind(First(1, Len(members), LAMBDA j : members[j][1] = key), LAMBDA k :
    IF k > Len(members) THEN <<"null">> ELSE members[k][2])

\* d.get(k1) or d.get(k2) or ... or default, over the keys in order
GetFirst(members, keys, default) ==
  Bind(Tuple([j \in 1..Len(keys) |-> Get(members, keys[j])]), LAMBDA values :
  Bind(First(1, Len(keys), LAMBDA j : Truthy(values[j])), LAMBDA k :
    IF k > Len(keys) THEN default ELSE values[k]))
(***************************************************************************)
(* csv.reader (dialect excel) over io.StringIO(text), and csv.DictReader.  *)
(***************************************************************************)
FieldStop(s, p) == First(p, Len(s), LAMBDA j : s[j] \in {",", "\n", "\r"})

RECURSIVE CsvQuoted(_, _)
\* a quoted field whose opening quote is before index p: its value and the
\* index of the character that ends the field (Len+1: the end of the text)
CsvQuoted(s, p) ==
  Bind(First(p, Len(s), LAMBDA j : s[j] = "\""), LAMBDA q :
    IF q > Len(s) THEN [value |-> From(s, p), stop |-> Len(s) + 1]
    ELSE IF CharAt(s, q + 1, "\"")
         THEN Bind(CsvQuoted(s, q + 2), LAMBDA r :
                [value |-> SubSeq(s, p, q - 1) \o <<"\"">> \o r.value,
                 stop |-> r.stop])
    ELSE Bind(FieldStop(s, q + 1), LAMBDA u :
           [value |-> SubSeq(s, p, q - 1) \o SubSeq(s, q + 1, u - 1), stop |-> u]))

\* the field that starts at index p
CsvField(s, p) ==
  IF CharAt(s, p, "\"") THEN CsvQuoted(s, p + 1)
  ELSE Bind(FieldStop(s, p), LAMBDA u : [value |-> SubSeq(s, p, u - 1), stop |-> u])

RECURSIVE CsvFields(_, _)
\* the fields of the record from index p on, and the index that ends the record
CsvFields(s, p) ==
  Bind(CsvField(s, p), LAMBDA f :
    IF CharAt(s, f.stop, ",")
    THEN Bind(CsvFields(s, f.stop + 1), LAMBDA rest :
           [fields |-> <<f.value>> \o rest.fields, stop |-> rest.stop])
    ELSE [fields |-> <<f.value>>, stop |-> f.stop])

\* the record that starts at index p <= Len(s); an empty line is the record []
CsvRecord(s, p) ==
  IF s[p] \in {"\n", "\r"} THEN [fields |-> <<>>, stop |-> p] ELSE CsvFields(s, p)

\* where the next record starts after a record that ended at index e; 0 is
\* csv.Error: a carriage return inside a line, followed by another character
NextRecord(s, e) ==
  Bind(First(e + 1, Len(s), LAMBDA j : s[j] # "\r"), LAMBDA k :
    IF e > Len(s) THEN Len(s) + 1
    ELSE IF s[e] = "\n" THEN e + 1
    ELSE IF k > Len(s) THEN Len(s) + 1
    ELSE IF s[k] = "\n" THEN k + 1
    ELSE 0)

RECURSIVE CsvRecords(_, _)
\* list(csv.reader(...)) from index p on: ok is FALSE where it raises
CsvRecords(s, p) ==
  IF p > Len(s) THEN [ok |-> TRUE, rows |-> <<>>]
  ELSE Bind(CsvRecord(s, p), LAMBDA r :
       Bind(NextRecord(s, r.stop), LAMBDA n :
         IF n = 0 THEN [ok |-> FALSE, rows |-> <<>>]
         ELSE Bind(CsvRecords(s, n), LAMBDA rest :
                IF ~rest.ok THEN [ok |-> FALSE, rows |-> <<>>]
                ELSE [ok |-> TRUE, rows |-> <<r.fields>> \o rest.rows])))

RECURSIVE ZipInto(_, _, _, _)
\* dict(zip(fieldnames, row)) over the first n pairs
ZipInto(fieldnames, row, n, members) ==
  IF n = 0 THEN members
  ELSE DictSet(ZipInto(fieldnames, row, n - 1, members), fieldnames[n], <<"str", row[n]>>)

RECURSIVE FillNone(_, _, _, _)
\* d[key] = None for the keys fieldnames[from..to]
FillNone(fieldnames, from, to, members) ==
  IF to < from THEN members
  ELSE DictSet(FillNone(fieldnames, from, to - 1, members), fieldnames[to], <<"null">>)

\* the dict DictReader gives for a row: its members, and under the key None
\* (rest) the fields beyond the header, <<>> when there are none
RowDict(fieldnames, row) ==
  LET lf == Len(fieldnames)
      lr == Len(row)
  IN  [members |-> FillNone(fieldnames, lr + 1, lf,
                            ZipInto(fieldnames, row, IF lf < lr THEN lf ELSE lr, <<>>)),
       rest    |-> IF lf < lr THEN SubSeq(row, lf + 1, lr) ELSE <<>>]

\* list(csv.DictReader(io.StringIO(text))): the first record is the header,
\* empty records after it are skipped
DictRows(text) ==
  Bind(CsvRecords(text, 1), LAMBDA rd :
    IF ~rd.ok THEN [ok |-> FALSE, rows |-> <<>>]
    ELSE IF rd.rows = <<>> THEN [ok |-> TRUE, rows |-> <<>>]
    ELSE Bind(SelectSeq(Tail(rd.rows), LAMBDA r : r # <<>>), LAMBDA data :
           [ok |-> TRUE,
            rows |-> Tuple([k \in 1..Len(data) |-> RowDict(rd.rows[1], data[k])])]))

(***************************************************************************)
(* _normalize_input of log_analyzer.py and normalize_input of backend.py.  *)
(* They differ in the keys a top-level object's timestamp is taken from.   *)
(***************************************************************************)
Str(s) == <<"str", s>>

\* f"[{ts}] [{lvl}] [{comp}] {msg}"
LogLine(ts, lvl, comp, msg) ==
  Bind(Tuple([k \in 1..4 |-> PyStr(<<ts, lvl, comp, msg>>[k])]), LAMBDA text :
    <<"[">> \o text[1] \o <<"]", " ", "[">> \o text[2] \o <<"]", " ", "[">> \o text[3] \o <<"]", " ">> \o text[4])

\* the line of a top-level object
ObjectLine(parsed, timestampKeys) ==
  LogLine(GetFirst(parsed[2], timestampKeys, Str(<<>>)),
          GetFirst(parsed[2], <<<<"l", "e", "v", "e", "l">>, <<"s", "e", "v", "e", "r", "i", "t", "y">>>>, Str(<<"I", "N", "F", "O">>)),
          GetFirst(parsed[2], <<<<"c", "o", "m", "p", "o", "n", "e", "n", "t">>, <<"s", "e", "r", "v", "i", "c", "e">>>>, Str(<<>>)),
          GetFirst(parsed[2], <<<<"m", "e", "s", "s", "a", "g", "e">>, <<"m", "s", "g">>>>, Str(JsonDumps(parsed))))

\* the line of an element of a top-level array
ElementLine(obj) ==
  IF obj[1] = "dict"
  THEN LogLine(GetFirst(obj[2], <<<<"t", "i", "m", "e", "s", "t", "a", "m", "p">>, <<"t", "i", "m", "e">>>>, Str(<<>>)),
               GetFirst(obj[2], <<<<"l", "e", "v", "e", "l">>>>, Str(<<"I", "N", "F", "O">>)),
               GetFirst(obj[2], <<<<"c", "o", "m", "p", "o", "n", "e", "n", "t">>>>, Str(<<>>)),
               GetFirst(obj[2], <<<<"m", "e", "s", "s", "a", "g", "e">>, <<"m", "s", "g">>>>, Str(JsonDumps(obj))))
  ELSE PyStr(obj)

\* the values a CSV row's default message joins
RowDefaultParts(row) ==
  Bind(SelectSeq(row.members,
         LAMBDA kv : /\ Truthy(kv[2])
                     /\ Lower(kv[1]) \notin {<<"t", "i", "m", "e", "s", "t", "a", "m", "p">>, <<"l", "e", "v", "e", "l">>, <<"c", "o", "m", "p", "o", "n", "e", "n", "t">>}),
       LAMBDA keep : Tuple([k \in 1..Len(keep) |-> keep[k][2][2]]))

\* whether building the line of a CSV row raises: the default message is
\* built when the row has no message and no msg, and k.lower() fails on the
\* key None of a row longer than the header
RowRaises(row) ==
  /\ ~Truthy(Get(row.members, <<"m", "e", "s", "s", "a", "g", "e">>))
  /\ ~Truthy(Get(row.members, <<"m", "s", "g">>))
  /\ row.rest # <<>>

\* the line of a CSV row
RowLine(row) ==
  LogLine(GetFirst(row.members, <<<<"t", "i", "m", "e", "s", "t", "a", "m", "p">>, <<"t", "i", "m", "e">>>>, Str(<<>>)),
          GetFirst(row.members, <<<<"l", "e", "v", "e", "l">>, <<"s", "e", "v", "e", "r", "i", "t", "y">>>>, Str(<<"I", "N", "F", "O">>)),
          GetFirst(row.members, <<<<"c", "o", "m", "p", "o", "n", "e", "n", "t">>>>, Str(<<>>)),
          GetFirst(row.members, <<<<"m", "e", "s", "s", "a", "g", "e">>, <<"m", "s", "g">>>>,
                   Str(JoinWith(RowDefaultParts(row), <<" ">>))))

\* the CSV attempt: [ok, text], ok FALSE where it gives nothing or raises
CsvAttempt(input_text) ==
  IF ~(Contains(input_text, <<",">>) /\ Contains(input_text, <<NL>>))
  THEN [ok |-> FALSE, text |-> <<>>]
  ELSE Bind(DictRows(input_text), LAMBDA rd :
         IF \/ ~rd.ok
            \/ rd.rows = <<>>
            \/ \E k \in 1..Len(rd.rows) : RowRaises(rd.rows[k])
         THEN [ok |-> FALSE, text |-> <<>>]
         ELSE [ok |-> TRUE,
               text |-> JoinWith(Tuple([k \in 1..Len(rd.rows) |-> RowLine(rd.rows[k])]),
                                 <<NL>>)])

\* the text of a JSON value: the logs of an object that has them as a str,
\* else its line; the lines of the elements of an array.  ok is FALSE for
\* any other value: the try block ends without a return
JsonAttempt(parsed, timestampKeys) ==
  IF ~parsed.ok THEN [ok |-> FALSE, text |-> <<>>]
  ELSE IF parsed.v[1] = "dict"
       THEN Bind(Get(parsed.v[2], <<"l", "o", "g", "s">>), LAMBDA logs :
              [ok |-> TRUE,
               text |-> IF logs[1] = "str" THEN logs[2]
                        ELSE ObjectLine(parsed.v, timestampKeys)])
  ELSE IF parsed.v[1] = "list"
       THEN [ok |-> TRUE,
             text |-> JoinWith(Tuple([k \in 1..Len(parsed.v[2]) |->
                                        ElementLine(parsed.v[2][k])]), <<NL>>)]
  ELSE [ok |-> FALSE, text |-> <<>>]

\* the three strategies in order, for the given timestamp keys of an object
Normalize(input_text, timestampKeys) ==
  Bind(JsonAttempt(json_loads(input_text), timestampKeys), LAMBDA json :
    IF json.ok THEN json.text
    ELSE Bind(CsvAttempt(input_text), LAMBDA csv :
           IF csv.ok THEN csv.text ELSE input_text))

\* AdvancedLogAnalyzer._normalize_input
normalize_input(input_text) == Normalize(input_text, <<<<"t", "i", "m", "e", "s", "t", "a", "m", "p">>, <<"t", "i", "m", "e">>>>)

\* normalize_input of analyze_logs
backend_normalize_input(input_text) ==
  Normalize(input_text, <<<<"t", "i", "m", "e", "s", "t", "a", "m", "p">>, <<"t", "i", "m", "e">>, <<"d", "a", "t", "e">>>>)

\* self.lines of __init__
LinesOf(raw) ==
  SelectSeq(SplitLines(Strip(normalize_input(raw))), LAMBDA l : Strip(l) # <<>>)

(***************************************************************************)
(* _format_clusters, _prepare_llm_context and analyze                      *)
(***************************************************************************)
RECURSIVE FormatFirst(_, _)
\* the text after the first n clusters
FormatFirst(cs, n) ==
  IF n = 0 THEN <<>>
  ELSE FormatFirst(cs, n - 1) \o <<"-", " ", "[">> \o cs[n].level \o <<"]", " ", "x">>
         \o DigitsOf(cs[n].count) \o <<":", " ">> \o cs[n].pattern \o <<NL>>

\* _format_clusters
format_clusters(cs) == FormatFirst(cs, Len(cs))

\* json.dumps(texts, indent=2) of a list of str
JsonDumpsIndent(texts) ==
  IF texts = <<>> THEN <<"[", "]">>
  ELSE <<"[", "\n", " ", " ">>
         \o JoinWith([k \in 1..Len(texts) |-> JsonDumpsStr(texts[k])], <<",", "\n", " ", " ">>)
         \o <<"\n", "]">>

\* _prepare_llm_context
prepare_llm_context(cs, anomalies, metrics) ==
  <<"\n", "A", "U", "T", "O", "M", "A", "T", "E", "D", " ", "A", "N", "A", "L", "Y", "S", "I", "S", " ", "R", "E", "P", "O", "R", "T", ":", "\n", "\n", "1", ".", " ", "T", "O", "P", " ", "L", "O", "G", " ", "P", "A", "T", "T", "E", "R", "N", "S", " ", "(", "C", "l", "u", "s", "t", "e", "r", "e", "d", ")", ":", "\n">>
    \o format_clusters(cs)
    \o <<"\n", "\n", "2", ".", " ", "D", "E", "T", "E", "C", "T", "E", "D", " ", "M", "E", "T", "R", "I", "C", "S", ":", "\n", "-", " ", "M", "a", "x", " ", "C", "P", "U", ":", " ">> \o DigitsOf(metrics.max_cpu)
    \o <<"%", "\n", "-", " ", "M", "a", "x", " ", "L", "a", "t", "e", "n", "c", "y", ":", " ">> \o DigitsOf(metrics.max_latency)
    \o <<"m", "s", "\n", "\n", "3", ".", " ", "D", "E", "T", "E", "C", "T", "E", "D", " ", "A", "N", "O", "M", "A", "L", "I", "E", "S", ":", "\n">> \o JsonDumpsIndent(anomalies) \o <<"\n">>

NoReport == [status |-> "none"]

Raised(error) == [status |-> "raised", error |-> error]

\* dict(Counter(entry['level'] for entry in data))
LevelCounts(data) ==
  [l \in {data[k].level : k \in 1..Len(data)} |->
     Cardinality({k \in 1..Len(data) : data[k].level = l})]

\* the report analyze() returns for the entries, their clusters and metrics
Returned(data, cs, metrics, anomalies) ==
  [status                 |-> "returned",
   parsed_entries         |-> Len(data),
   log_levels             |-> LevelCounts(data),
   components             |-> {data[k].component : k \in 1..Len(data)},
   metrics_summary        |-> metrics,
   anomalies              |-> anomalies,
   correlations           |-> find_correlations(anomalies, cs),
   health_score           |-> calculate_health(cs, anomalies),
   analysis_ready_for_llm |-> prepare_llm_context(cs, anomalies, metrics)]

\* what analyze() gives once _parse_lines has left data in self.parsed_data
\* and _cluster_logs has returned cs
ReportOf(data, cs) ==
  IF extract_metrics_raises(data) THEN Raised("ValueError")
  ELSE Bind(extract_metrics(data), LAMBDA metrics :
         Returned(data, cs, metrics, detect_anomalies(metrics)))

(***************************************************************************)
(* analyze_multi: the log lines of one uploaded file, and the merge        *)
(***************************************************************************)
\* row.values(): the members' values, then the list under the key None
RowValues(row) ==
  Tuple([k \in 1..Len(row.members) |-> row.members[k][2]])
    \o (IF row.rest = <<>> THEN <<>>
        ELSE <<(<<"list", Tuple([k \in 1..Len(row.rest) |-> Str(row.rest[k])])>>)>>)

\* ' '.join([str(v) for v in row.values() if v])
RowCombined(row) ==
  Bind(SelectSeq(RowValues(row), Truthy), LAMBDA keep :
    JoinWith(Tuple([k \in 1..Len(keep) |-> PyStr(keep[k])]), <<" ">>))

\* row.get('timestamp', '')
RowTimestamp(row) ==
  IF \E k \in 1..Len(row.members) : row.members[k][1] = <<"t", "i", "m", "e", "s", "t", "a", "m", "p">>
  THEN Get(row.members, <<"t", "i", "m", "e", "s", "t", "a", "m", "p">>) ELSE Str(<<>>)

\* f"[{row.get('timestamp','')}] [METRICS] {combined}"
MultiRowLine(row) ==
  <<"[">> \o PyStr(RowTimestamp(row)) \o <<"]", " ", "[", "M", "E", "T", "R", "I", "C", "S", "]", " ">> \o RowCombined(row)

\* the entries a .csv file adds to log_texts, from its rows
CsvLogTexts(rd) ==
  IF ~rd.ok THEN [ok |-> FALSE, texts |-> <<>>]
  ELSE [ok |-> TRUE, texts |-> Tuple([k \in 1..Len(rd.rows) |-> MultiRowLine(rd.rows[k])])]

\* the entries one file adds to log_texts; kind is "csv" for a name ending
\* in .csv; ok is FALSE where reading the CSV raises
FileLogTexts(kind, text) ==
  IF kind # "csv" THEN [ok |-> TRUE, texts |-> <<text>>]
  ELSE CsvLogTexts(DictRows(text))

RECURSIVE LogTexts(_, _)
\* log_texts after the first n uploaded files, each a [kind, text]
LogTexts(files, n) ==
  IF n = 0 THEN <<>>
  ELSE LogTexts(files, n - 1) \o FileLogTexts(files[n].kind, files[n].text).texts

\* merged_logs = '\n'.join(log_texts)
MergedLogs(files) == JoinWith(LogTexts(files, Len(files)), <<NL>>)

(***************************************************************************)
(* The inputs the callers hand over.                                       *)
(***************************************************************************)
MaxLines == 2

MaxBurst == 21

MaxDistinct == 21

MaxCalls == 2

MaxKeys == 2

MaxChunks == 3

SampleLines ==
  << <<"[", "2", "0", "2", "5", "-", "0", "1", "-", "0", "1", "T", "0", "0", ":", "0", "0", ":", "0", "0", "]", " ", "[", "I", "N", "F", "O", "]", " ", "A", "p", "p", " ", "s", "t", "a", "r", "t", "e", "d">>,
     <<"[", "T", "]", " ", "[", "M", "E", "T", "R", "I", "C", "S", "]", " ", "C", "P", "U", ":", " ", "8", "0", "%", " ", "|", " ", "M", "E", "M", ":", " ", "9", "0", "0", "0", "M", "B">>,
     <<"[", "T", "]", " ", "[", "M", "E", "T", "R", "I", "C", "S", "]", " ", "C", "P", "U", ":", "8", "1", "%", " ", "|", " ", "M", "E", "M", ":", " ", "4", "5", "0", "M", "B">>,
     <<"[", "T", "]", " ", "[", "E", "R", "R", "O", "R", "]", " ", "[", "d", "b", "]", " ", "D", "a", "t", "a", "b", "a", "s", "e", " ", "p", "o", "o", "l", " ", "e", "x", "h", "a", "u", "s", "t", "e", "d", " ", "D", "u", "r", "a", "t", "i", "o", "n", ":", " ", "2", "0", "0", "1", "m", "s">>,
     <<"[", "T", "]", " ", "[", "W", "A", "R", "N", "]", " ", "[", "a", "p", "i", "]", " ", "r", "e", "q", "u", "e", "s", "t", " ", "t", "i", "m", "e", ":", " ", "2", "0", "0", "0", "m", "s", " ", "f", "r", "o", "m", " ", "1", "0", ".", "0", ".", "0", ".", "1">>,
     <<"[", "T", "]", " ", "[", "C", "R", "I", "T", "I", "C", "A", "L", "]", " ", "G", "C", " ", "p", "a", "u", "s", "e", " ", "'", "f", "u", "l", "l", "'", " ", "L", "A", "T", "E", "N", "C", "Y", ":", " ", "2", "5", "0", "0", "M", "S">>,
     <<"[", "T", "]", " ", "[", "E", "R", "R", "O", "R", "]", " ", "Q", "u", "e", "r", "y", " ", "f", "a", "i", "l", "e", "d", ",", " ", "c", "o", "d", "e", " ", "5">>,
     <<"n", "o", "t", " ", "a", " ", "l", "o", "g", " ", "l", "i", "n", "e">> >>

RECURSIVE LineSeqs(_)
\* the sequences of at most n sample lines
LineSeqs(n) ==
  IF n = 0 THEN {<<>>}
  ELSE LineSeqs(n - 1)
       \cup {Append(ls, SampleLines[k]) :
               ls \in {l \in LineSeqs(n - 1) : Len(l) = n - 1},
               k \in 1..Len(SampleLines)}

\* raw log text of at most MaxLines sample lines
RawTexts == {JoinWith(ls, <<NL>>) : ls \in LineSeqs(MaxLines)}

\* the decimal N of line i of a burst: short ones, or one among them of 35,
\* 36 or 37 digits
BurstNumber(i, variant) ==
  CASE variant = 1 -> Repeat(<<"7">>, ((i - 1) % 3) + 1)
    [] variant = 2 -> IF i = 1 THEN Repeat(<<"7">>, UuidLen - 1) ELSE DigitsOf(i)
    [] variant = 3 -> IF i = 1 THEN Repeat(<<"7">>, UuidLen) ELSE DigitsOf(i)
    [] variant = 4 -> IF i = 1 THEN Repeat(<<"7">>, UuidLen + 1) ELSE DigitsOf(i)

BurstPrefix == <<"[", "T", "]", " ", "[", "E", "R", "R", "O", "R", "]", " ", "C", "o", "n", "n", "e", "c", "t", "i", "o", "n", " ", "f", "a", "i", "l", "e", "d", " ", "t", "o", " ", "d", "b", "-">>

\* n lines "[T] [ERROR] Connection failed to db-N"
Burst(n, variant) ==
  JoinWith([i \in 1..n |-> BurstPrefix \o BurstNumber(i, variant)], <<NL>>)

BurstTexts == {Burst(n, variant) : n \in 1..MaxBurst, variant \in 1..4}

\* k lines with k different messages, INFO and ERROR in turn, and after them
\* more lines with the last message, as many as again says
Distinct(k, again) ==
  JoinWith([i \in 1..(k + again) |->
              <<"[", "T", "]", " ", "[">> \o (IF i % 2 = 0 THEN <<"I", "N", "F", "O">> ELSE <<"E", "R", "R", "O", "R">>) \o <<"]", " ", "m">>
                \o Repeat(<<"a">>, IF i > k THEN k ELSE i)],
           <<NL>>)

\* with two lines more, the last has the signature of line k
DistinctTexts == {Distinct(k, again) : k \in 1..MaxDistinct, again \in {0, 2}}

\* k lines of k different signatures and, last, an ERROR line about the
\* database with a latency above the threshold
DatabaseLast(k) ==
  Distinct(k, 0) \o <<NL>> \o <<"[", "T", "]", " ", "[", "E", "R", "R", "O", "R", "]", " ", "d", "a", "t", "a", "b", "a", "s", "e", " ", "d", "o", "w", "n", " ", "l", "a", "t", "e", "n", "c", "y", ":", " ", "2", "5", "0", "0", "m", "s">>

\* with k from TopN - 1 on, the last line's cluster is the 20th or beyond
DatabaseLastTexts == {DatabaseLast(k) : k \in (MaxDistinct - 2)..MaxDistinct}

BlankTexts == { <<>>, <<" ">>, <<"\n">>, <<" ", "\n", "\t", "\n">>, <<"\r", "\n", " ", " ", "\r", "\n">> }

\* a line whose CPU value has one digit more than int() converts
LongNumberText ==
  <<"[", "T", "]", " ", "[", "I", "N", "F", "O", "]", " ", "C", "P", "U", ":", " ">> \o Repeat(<<"9">>, IntMaxStrDigits + 1) \o <<"%">>

\* json_input of src/test_input_formats.py
JsonArrayText ==
  <<"[", "\n", " ", " ", "{", "\"", "t", "i", "m", "e", "s", "t", "a", "m", "p", "\"", ":", " ", "\"", "2", "0", "2", "5", "-", "1", "1", "-", "2", "7", "T", "1", "4", ":", "0", "1", ":", "0", "0", "\"", ",", " ", "\"", "l", "e", "v", "e", "l", "\"", ":", " ", "\"", "I", "N", "F", "O", "\"", ",", " ", "\"", "c", "o", "m", "p", "o", "n", "e", "n", "t", "\"", ":", " ", "\"", "a", "u", "t", "h", "\"", ",", " ", "\"", "m", "e", "s", "s", "a", "g", "e", "\"", ":", " ", "\"", "U", "s", "e", "r", " ", "1", "2", "3", " ", "l", "o", "g", "g", "e", "d", " ", "i", "n", "\"", "}", ",", "\n">>
  \o <<" ", " ", "{", "\"", "t", "i", "m", "e", "s", "t", "a", "m", "p", "\"", ":", " ", "\"", "2", "0", "2", "5", "-", "1", "1", "-", "2", "7", "T", "1", "4", ":", "0", "1", ":", "0", "1", "\"", ",", " ", "\"", "l", "e", "v", "e", "l", "\"", ":", " ", "\"", "E", "R", "R", "O", "R", "\"", ",", " ", "\"", "c", "o", "m", "p", "o", "n", "e", "n", "t", "\"", ":", " ", "\"", "d", "b", "\"", ",", " ", "\"", "m", "e", "s", "s", "a", "g", "e", "\"", ":", " ", "\"", "C", "o", "n", "n", "e", "c", "t", "i", "o", "n", " ", "f", "a", "i", "l", "e", "d", " ", "f", "o", "r", " ", "u", "s", "e", "r", " ", "1", "2", "3", "\"", "}", ",", "\n">>
  \o <<" ", " ", "{", "\"", "t", "i", "m", "e", "s", "t", "a", "m", "p", "\"", ":", " ", "\"", "2", "0", "2", "5", "-", "1", "1", "-", "2", "7", "T", "1", "4", ":", "0", "1", ":", "0", "2", "\"", ",", " ", "\"", "l", "e", "v", "e", "l", "\"", ":", " ", "\"", "E", "R", "R", "O", "R", "\"", ",", " ", "\"", "c", "o", "m", "p", "o", "n", "e", "n", "t", "\"", ":", " ", "\"", "d", "b", "\"", ",", " ", "\"", "m", "e", "s", "s", "a", "g", "e", "\"", ":", " ", "\"", "C", "o", "n", "n", "e", "c", "t", "i", "o", "n", " ", "f", "a", "i", "l", "e", "d", " ", "f", "o", "r", " ", "u", "s", "e", "r", " ", "4", "5", "6", "\"", "}", "\n", "]">>

\* csv_input of src/test_input_formats.py
CsvText ==
  <<"t", "i", "m", "e", "s", "t", "a", "m", "p", ",", "l", "e", "v", "e", "l", ",", "c", "o", "m", "p", "o", "n", "e", "n", "t", ",", "m", "e", "s", "s", "a", "g", "e", "\n">>
  \o <<"2", "0", "2", "5", "-", "1", "1", "-", "2", "7", "T", "1", "4", ":", "0", "2", ":", "0", "0", ",", "I", "N", "F", "O", ",", "s", "e", "r", "v", "i", "c", "e", ",", "S", "t", "a", "r", "t", "e", "d", " ", "s", "u", "c", "c", "e", "s", "s", "f", "u", "l", "l", "y", "\n">>
  \o <<"2", "0", "2", "5", "-", "1", "1", "-", "2", "7", "T", "1", "4", ":", "0", "2", ":", "0", "1", ",", "M", "E", "T", "R", "I", "C", "S", ",", "s", "y", "s", "t", "e", "m", ",", "C", "P", "U", ":", " ", "7", "8", "%", " ", "|", " ", "M", "E", "M", ":", " ", "6", "0", "0", "M", "B", "\n">>
  \o <<"2", "0", "2", "5", "-", "1", "1", "-", "2", "7", "T", "1", "4", ":", "0", "2", ":", "0", "2", ",", "E", "R", "R", "O", "R", ",", "d", "b", ",", "Q", "u", "e", "r", "y", " ", "e", "x", "e", "c", "u", "t", "i", "o", "n", " ", "t", "i", "m", "e", ":", " ", "4", "5", "0", "m", "s", " ", "(", "T", "h", "r", "e", "s", "h", "o", "l", "d", ":", "2", "0", "0", "m", "s", ")", "\n">>

StructuredTexts ==
  { JsonArrayText,
    CsvText,
    <<"{", "\"", "l", "o", "g", "s", "\"", ":", " ", "\"", "[", "T", "]", " ", "[", "I", "N", "F", "O", "]", " ", "a", "\\", "n", "[", "T", "]", " ", "[", "E", "R", "R", "O", "R", "]", " ", "d", "a", "t", "a", "b", "a", "s", "e", " ", "d", "o", "w", "n", " ", "l", "a", "t", "e", "n", "c", "y", ":", " ", "2", "5", "0", "0", "m", "s", "\"", "}">>,
    <<"{", "\"", "s", "e", "v", "e", "r", "i", "t", "y", "\"", ":", " ", "\"", "E", "R", "R", "O", "R", "\"", ",", " ", "\"", "s", "e", "r", "v", "i", "c", "e", "\"", ":", " ", "\"", "d", "b", "\"", ",", " ", "\"", "t", "i", "m", "e", "\"", ":", " ", "\"", "T", "\"", ",", " ", "\"", "m", "s", "g", "\"", ":", " ", "\"", "C", "P", "U", ":", " ", "9", "5", "%", "\"", "}">>,
    <<"[", "{", "\"", "s", "e", "v", "e", "r", "i", "t", "y", "\"", ":", " ", "\"", "E", "R", "R", "O", "R", "\"", ",", " ", "\"", "m", "s", "g", "\"", ":", " ", "\"", "b", "o", "o", "m", "\"", "}", ",", " ", "\"", "[", "T", "]", " ", "[", "W", "A", "R", "N", "]", " ", "b", "a", "r", "e", "\"", ",", " ", "5", ",", " ", "n", "u", "l", "l", "]">>,
    <<"{", "\"", "l", "e", "v", "e", "l", "\"", ":", " ", "\"", "E", "R", "R", "O", "R", "\"", "}">>,
    <<"t", "i", "m", "e", ",", "s", "e", "v", "e", "r", "i", "t", "y", ",", "c", "p", "u", "\n", "T", ",", "E", "R", "R", "O", "R", ",", "C", "P", "U", ":", " ", "9", "9", "%", "\n", "T", ",", ",", "i", "d", "l", "e", "\n">> }

\* text that is neither JSON nor CSV nor log lines, or breaks off
MalformedTexts ==
  { <<"{", "\"", "l", "e", "v", "e", "l", "\"", ":", " ", "\"", "E", "R", "R", "O", "R", "\"", ",", " ", "\"", "m", "e", "s", "s", "a", "g", "e", "\"", ":", " ">>,
    <<"{", "\"", "a", "\"", ":", " ", "1", ",", "\n", "\"", "b", "\"", ":", " ", "2">>,
    <<"[", "{", "\"", "l", "e", "v", "e", "l", "\"", ":", " ", "\"", "E", "R", "R", "O", "R", "\"", "}", ",", "\n">>,
    <<"a", ",", "b", "\n", "1", ",", "2", ",", "3", "\n">>,
    <<"x", "\r", "y", ",", "z", "\n", "q">>,
    <<"\"", "o", "p", "e", "n", ",", "\n", "q", "u", "o", "t", "e">>,
    <<"[", "T", "]", " ", "[", "I", "N", " ", "F", "O", "]", " ", "l", "e", "v", "e", "l", " ", "w", "i", "t", "h", " ", "a", " ", "b", "l", "a", "n", "k">>,
    <<"-", " ", "[", "E", "R", "R", "O", "R", "]", " ", "x", "3", ":", " ", "C", "o", "n", "n", "e", "c", "t", "i", "o", "n", " ", "f", "a", "i", "l", "e", "d", " ", "t", "o", " ", "d", "b", "-", "{", "N", "U", "M", "}">> }

Inputs ==
  RawTexts \cup BurstTexts \cup DistinctTexts \cup DatabaseLastTexts \cup BlankTexts
           \cup StructuredTexts \cup MalformedTexts \cup {LongNumberText}

(***************************************************************************)
(* The analyzer: an instance is constructed from the caller's text, or     *)
(* from the cluster lines a report rendered, and analyze() is called on it.*)
(***************************************************************************)
Init ==
  /\ raw_logs = <<>>
  /\ lines = <<>>
  /\ parsed_data = <<>>
  /\ clusters = <<>>
  /\ report = NoReport
  /\ calls = 0
  /\ phase = "idle"
  /\ origin = "none"
  /\ probe = [fn |-> "none"]

\* AdvancedLogAnalyzer(raw)
New(raw, from) ==
  /\ raw_logs' = raw
  /\ lines' = LinesOf(raw)
  /\ parsed_data' = <<>>
  /\ clusters' = <<>>
  /\ report' = NoReport
  /\ calls' = 0
  /\ phase' = "live"
  /\ origin' = from
  /\ UNCHANGED probe

Construct(raw) ==
  /\ phase = "idle"
  /\ New(raw, "caller")

\* analyze()
Analyze ==
  /\ phase = "live"
  /\ calls < MaxCalls
  /\ parsed_data' = parse_lines(parsed_data, lines)
  /\ clusters' = cluster_logs(parsed_data')
  /\ report' = ReportOf(parsed_data', clusters')
  /\ calls' = calls + 1
  /\ UNCHANGED <<raw_logs, lines, phase, origin, probe>>

\* the cluster lines of a report go back in as the text of a new instance
ConstructFromContext ==
  /\ phase = "live"
  /\ origin = "caller"
  /\ report.status = "returned"
  /\ New(format_clusters(clusters), "context")

Next ==
  \/ \E raw \in Inputs : Construct(raw)
  \/ Analyze
  \/ ConstructFromContext

Spec == Init /\ [][Next]_vars

(***************************************************************************)
(* Masking twice: a message is masked, and the outcome is masked again.    *)
(***************************************************************************)
\* 35 characters of a UUID: one more hexadecimal digit completes it
Hex35 == <<"1", "2", "3", "e", "4", "5", "6", "7", "-", "e", "8", "9", "b", "-", "1", "2", "d", "3", "-", "a", "4", "5", "6", "-", "4", "2", "6", "6", "1", "4", "1", "7", "4", "0", "0">>

Chunks ==
  { <<"7">>, <<"1", "0", ".", "0", ".", "0", ".", "1">>, <<"-">>, <<".">>, <<"a">>, <<"'">>, <<" ">>, <<"{", "N", "U", "M", "}">>, Hex35 }

RECURSIVE ChunkTexts(_)
\* the concatenations of at most n chunks
ChunkTexts(n) ==
  IF n = 0 THEN {<<>>}
  ELSE ChunkTexts(n - 1) \cup {t \o c : t \in ChunkTexts(n - 1), c \in Chunks}

Messages == ChunkTexts(MaxChunks)

Idle ==
  /\ raw_logs = <<>>
  /\ lines = <<>>
  /\ parsed_data = <<>>
  /\ clusters = <<>>
  /\ report = NoReport
  /\ calls = 0
  /\ phase = "idle"
  /\ origin = "none"

InitMask ==
  /\ Idle
  /\ probe \in {[fn |-> "mask", message |-> m, once |-> <<>>, again |-> <<>>,
                 passes |-> 0] : m \in Messages}

\* the loop over mask_patterns on the message of an entry
MaskOnce ==
  /\ probe.passes = 0
  /\ probe' = [probe EXCEPT !.once = Mask(probe.message), !.passes = 1]
  /\ UNCHANGED <<raw_logs, lines, parsed_data, clusters, report, calls, phase, origin>>

\* the same loop on a message that is the outcome of the first
MaskAgain ==
  /\ probe.passes = 1
  /\ probe' = [probe EXCEPT !.again = Mask(probe.once), !.passes = 2]
  /\ UNCHANGED <<raw_logs, lines, parsed_data, clusters, report, calls, phase, origin>>

NextMask == MaskOnce \/ MaskAgain

SpecMask == InitMask /\ [][NextMask]_vars

(***************************************************************************)
(* One record on each way in: a JSON object alone and as the only element  *)
(* of an array through _normalize_input, and a JSON or CSV document        *)
(* through /api/analyze and, as an uploaded file, through                  *)
(* /api/analyze-multi.                                                     *)
(***************************************************************************)
RecordKeys ==
  << <<"t", "i", "m", "e", "s", "t", "a", "m", "p">>, <<"t", "i", "m", "e">>, <<"d", "a", "t", "e">>, <<"l", "e", "v", "e", "l">>, <<"s", "e", "v", "e", "r", "i", "t", "y">>, <<"c", "o", "m", "p", "o", "n", "e", "n", "t">>,
     <<"s", "e", "r", "v", "i", "c", "e">>, <<"m", "e", "s", "s", "a", "g", "e">>, <<"m", "s", "g">> >>

\* the value a record holds under the key
RecordValue(key) ==
  CASE key = <<"l", "e", "v", "e", "l">>    -> <<"W", "A", "R", "N">>
    [] key = <<"s", "e", "v", "e", "r", "i", "t", "y">> -> <<"E", "R", "R", "O", "R">>
    [] OTHER             -> <<"v", "-">> \o key

\* the sequences of at most n keys, in the order of RecordKeys
RECURSIVE KeySeqs(_)
KeySeqs(n) ==
  IF n = 0 THEN {<<>>}
  ELSE KeySeqs(n - 1)
       \cup {Append(ks, j) : ks \in {s \in KeySeqs(n - 1) : Len(s) = n - 1},
                             j \in 1..Len(RecordKeys)}

Ascending(ks) == \A i \in 1..(Len(ks) - 1) : ks[i] < ks[i + 1]

RecordShapes == {ks \in KeySeqs(MaxKeys) : Ascending(ks)}

\* the JSON object with the keys
JsonRecord(ks) ==
  <<"{">> \o JoinWith([i \in 1..Len(ks) |->
                      <<"\"">> \o RecordKeys[ks[i]] \o <<"\"", ":", " ", "\"">>
                        \o RecordValue(RecordKeys[ks[i]]) \o <<"\"">>], <<",", " ">>)
       \o <<"}">>

\* the CSV with the keys as header and one row
CsvRecord1(ks) ==
  JoinWith([i \in 1..Len(ks) |-> RecordKeys[ks[i]]], <<",">>) \o <<NL>>
    \o JoinWith([i \in 1..Len(ks) |-> RecordValue(RecordKeys[ks[i]])], <<",">>)
    \o <<NL>>

Documents ==
  {[kind |-> "json", text |-> JsonRecord(ks)] : ks \in RecordShapes}
  \cup {[kind |-> "csv", text |-> CsvRecord1(ks)] :
          ks \in {s \in RecordShapes : Len(s) >= 2}}
  \cup {[kind |-> "csv", text |-> CsvText]}

Pending == [done |-> FALSE]

Done(value) == [done |-> TRUE, value |-> value]

InitFormats ==
  /\ Idle
  /\ probe \in {[fn |-> "formats", kind |-> d.kind, text |-> d.text,
                 alone |-> Pending, inArray |-> Pending,
                 single |-> Pending, multi |-> Pending] : d \in Documents}

\* _normalize_input on the object as the top-level value
NormalizeAlone ==
  /\ probe.kind = "json"
  /\ ~probe.alone.done
  /\ probe' = [probe EXCEPT !.alone = Done(normalize_input(probe.text))]
  /\ UNCHANGED <<raw_logs, lines, parsed_data, clusters, report, calls, phase, origin>>

\* _normalize_input on the array whose only element is the object
NormalizeInArray ==
  /\ probe.kind = "json"
  /\ ~probe.inArray.done
  /\ probe' = [probe EXCEPT
                 !.inArray = Done(normalize_input(<<"[">> \o probe.text \o <<"]">>))]
  /\ UNCHANGED <<raw_logs, lines, parsed_data, clusters, report, calls, phase, origin>>

\* analyze_logs: the lines of AdvancedLogAnalyzer(normalize_input(raw_logs))
SingleInput ==
  /\ ~probe.single.done
  /\ probe' = [probe EXCEPT
                 !.single = Done(LinesOf(backend_normalize_input(probe.text)))]
  /\ UNCHANGED <<raw_logs, lines, parsed_data, clusters, report, calls, phase, origin>>

\* analyze_multi: the lines of AdvancedLogAnalyzer(merged_logs) for one file
MultiFile ==
  /\ ~probe.multi.done
  /\ probe' = [probe EXCEPT
                 !.multi = Done(LinesOf(MergedLogs(<<[kind |-> probe.kind,
                                                      text |-> probe.text]>>)))]
  /\ UNCHANGED <<raw_logs, lines, parsed_data, clusters, report, calls, phase, origin>>

NextFormats == NormalizeAlone \/ NormalizeInArray \/ SingleInput \/ MultiFile

SpecFormats == InitFormats /\ [][NextFormats]_vars

(***************************************************************************)
(* Normalizing twice: _normalize_input on its own outcome, and a text      *)
(* analyzed directly and through /api/analyze, where normalize_input runs  *)
(* before AdvancedLogAnalyzer normalizes its argument again.               *)
(***************************************************************************)
\* texts whose normalized form is itself JSON, or has a comma and a newline
NestedTexts ==
  { <<"{", "\"", "l", "o", "g", "s", "\"", ":", " ", "\"", "{", "\\", "\"", "l", "e", "v", "e", "l", "\\", "\"", ":", " ", "\\", "\"", "E", "R", "R", "O", "R", "\\", "\"", "}", "\"", "}">>,
    <<"[", "{", "\"", "l", "e", "v", "e", "l", "\"", ":", " ", "\"", "E", "R", "R", "O", "R", "\"", ",", " ", "\"", "m", "e", "s", "s", "a", "g", "e", "\"", ":", " ", "\"", "a", ",", " ", "b", "\"", "}", ",", " ", "{", "\"", "l", "e", "v", "e", "l", "\"", ":", " ", "\"", "W", "A", "R", "N", "\"", ",", " ", "\"", "m", "e", "s", "s", "a", "g", "e", "\"", ":", " ", "\"", "c", "\"", "}", "]">>,
    <<"l", "e", "v", "e", "l", ",", "m", "e", "s", "s", "a", "g", "e", "\n", "E", "R", "R", "O", "R", ",", "\"", "a", ",", " ", "b", "\"", "\n", "W", "A", "R", "N", ",", "c", "\n">>,
    <<"[", "\"", "[", "1", ",", " ", "2", "]", "\"", "]">> }

TwiceTexts ==
  RawTexts \cup BlankTexts \cup StructuredTexts \cup MalformedTexts \cup NestedTexts

InitTwice ==
  /\ Idle
  /\ probe \in {[fn |-> "twice", text |-> t, once |-> Pending, twice |-> Pending,
                 direct |-> Pending, api |-> Pending] : t \in TwiceTexts}

\* AdvancedLogAnalyzer(raw).analyze() on a new instance
AnalyzerReport(raw) ==
  Bind(parse_lines(<<>>, LinesOf(raw)), LAMBDA data :
    ReportOf(data, cluster_logs(data)))

\* parsed_entries and log_levels of what analyze() gave
Summary(r) ==
  IF r.status = "returned"
  THEN [status |-> r.status, parsed_entries |-> r.parsed_entries,
        log_levels |-> r.log_levels]
  ELSE [status |-> r.status]

\* _normalize_input(x)
NormalizeOnce ==
  /\ ~probe.once.done
  /\ probe' = [probe EXCEPT !.once = Done(normalize_input(probe.text))]
  /\ UNCHANGED <<raw_logs, lines, parsed_data, clusters, report, calls, phase, origin>>

\* _normalize_input on what the first call returned
NormalizeTwice ==
  /\ probe.once.done
  /\ ~probe.twice.done
  /\ probe' = [probe EXCEPT !.twice = Done(normalize_input(probe.once.value))]
  /\ UNCHANGED <<raw_logs, lines, parsed_data, clusters, report, calls, phase, origin>>

\* AdvancedLogAnalyzer(x).analyze()
DirectAnalyze ==
  /\ ~probe.direct.done
  /\ probe' = [probe EXCEPT !.direct = Done(Summary(AnalyzerReport(probe.text)))]
  /\ UNCHANGED <<raw_logs, lines, parsed_data, clusters, report, calls, phase, origin>>

\* analyze_logs: an empty text is answered 400 before anything is analyzed
ApiAnalyze ==
  /\ probe.text # <<>>
  /\ ~probe.api.done
  /\ probe' = [probe EXCEPT
                 !.api = Done(Summary(AnalyzerReport(backend_normalize_input(probe.text))))]
  /\ UNCHANGED <<raw_logs, lines, parsed_data, clusters, report, calls, phase, origin>>

NextTwice == NormalizeOnce \/ NormalizeTwice \/ DirectAnalyze \/ ApiAnalyze

SpecTwice == InitTwice /\ [][NextTwice]_vars

(***************************************************************************)
(* The properties checked of the analyzer.                                 *)
(***************************************************************************)
RECURSIVE SumCounts(_, _)
\* the sum of the count fields of the first n clusters
SumCounts(cs, n) == IF n = 0 THEN 0 ELSE SumCounts(cs, n - 1) + cs[n].count

\* an analyze() call has returned its report
HasReport == calls >= 1 /\ report.status = "returned"

\* every non-blank normalized line matches the pattern of _parse_lines
AllLinesMatch ==
  /\ lines # <<>>
  /\ \A k \in 1..Len(lines) : LogPatternMatch(Strip(lines[k])).ok

\* C1 (as amended): the counts of the clusters analyze() produced sum to the
\* report's parsed_entries as long as the entries have at most 20 distinct
\* signatures; with more than 20, the clusters are the 20 most frequent and
\* their counts sum to less than parsed_entries.
C1_CountsSumUpToTopN ==
  HasReport =>
    IF DistinctSignatures(parsed_data) <= 20
    THEN SumCounts(clusters, Len(clusters)) = report.parsed_entries
    ELSE /\ Len(clusters) = 20
         /\ SumCounts(clusters, Len(clusters)) < report.parsed_entries

\* all lines match, the entries have exactly 20 signatures and are more than 20
C1_Witness ==
  /\ HasReport
  /\ AllLinesMatch
  /\ DistinctSignatures(parsed_data) = 20
  /\ report.parsed_entries > 20
  /\ Len(clusters) = 20

\* C1 as stated: whenever all lines match, the counts sum to parsed_entries,
\* for any number of distinct signatures
C1_AsStated ==
  (HasReport /\ AllLinesMatch) =>
    SumCounts(clusters, Len(clusters)) = report.parsed_entries

\* the fields of a report that C2 names
NamedFields(r) ==
  <<r.parsed_entries, r.log_levels, r.metrics_summary, r.anomalies, r.health_score>>

\* C2 as stated: a further analyze() call on the same instance returns the
\* same parsed_entries, log_levels, metrics_summary, anomalies and
\* health_score as the call before it, hence as the first.
C2_SameReportEveryCall ==
  [][(HasReport /\ calls' = calls + 1) =>
       /\ report'.status = "returned"
       /\ NamedFields(report') = NamedFields(report)]_vars

\* C3: the health_score of a returned report is an integer from 0 to 100,
\* and it is 100 when the report has no anomalies and no cluster has the
\* level ERROR or CRITICAL.
C3_HealthInRange ==
  HasReport =>
    /\ report.health_score \in 0..100
    /\ (/\ report.anomalies = <<>>
        /\ \A k \in 1..Len(clusters) : clusters[k].level \notin {<<"E", "R", "R", "O", "R">>, <<"C", "R", "I", "T", "I", "C", "A", "L">>})
         => report.health_score = 100

\* the penalties exceed 100 and the score is 0
C3_Witness ==
  /\ HasReport
  /\ report.health_score = 0
  /\ 5 * TotalErrors(clusters, Len(clusters)) + 10 * Len(report.anomalies) > 100

\* C4 as stated: analyze() never raises, a report is always returned.
C4_NeverRaises == report.status # "raised"

\* C5 as stated: an object that is the only element of a JSON array is
\* turned into the same line as the same object submitted alone.
C5_ElementAsAlone ==
  (probe.fn = "formats" /\ probe.alone.done /\ probe.inArray.done) =>
    probe.inArray.value = probe.alone.value

\* C6 as stated: the lines the parser is handed for a CSV or JSON record are
\* the same on the single-input path and on the multi-file path.
C6_SameOnBothPaths ==
  (probe.fn = "formats" /\ probe.single.done /\ probe.multi.done) =>
    probe.multi.value = probe.single.value

\* the text is empty or has white space only
Blank(text) == \A k \in 1..Len(text) : text[k] \in WhiteSpace

\* C7: for an empty or all-blank input analyze() returns a report with zero
\* parsed entries, no level counts, no components, no clusters in the LLM
\* context, all metric values 0 with empty series, no anomalies, no
\* correlations and health_score 100.
C7_BlankGivesEmptyReport ==
  (calls >= 1 /\ origin = "caller" /\ Blank(raw_logs)) =>
    /\ report.status = "returned"
    /\ report.parsed_entries = 0
    /\ DOMAIN report.log_levels = {}
    /\ report.components = {}
    /\ clusters = <<>>
    /\ report.metrics_summary =
         [avg_cpu |-> 0, max_cpu |-> 0, avg_memory |-> 0, max_latency |-> 0,
          metric_points |-> 0, cpu_series |-> <<>>, memory_series |-> <<>>,
          latency_series |-> <<>>]
    /\ report.anomalies = <<>>
    /\ report.correlations = <<>>
    /\ report.health_score = 100
    /\ report.analysis_ready_for_llm =
         <<"\n", "A", "U", "T", "O", "M", "A", "T", "E", "D", " ", "A", "N", "A", "L", "Y", "S", "I", "S", " ", "R", "E", "P", "O", "R", "T", ":", "\n", "\n", "1", ".", " ", "T", "O", "P", " ", "L", "O", "G", " ", "P", "A", "T", "T", "E", "R", "N", "S", " ", "(", "C", "l", "u", "s", "t", "e", "r", "e", "d", ")", ":", "\n">>
           \o <<"\n", "\n", "2", ".", " ", "D", "E", "T", "E", "C", "T", "E", "D", " ", "M", "E", "T", "R", "I", "C", "S", ":", "\n", "-", " ", "M", "a", "x", " ", "C", "P", "U", ":", " ", "0", "%", "\n", "-", " ", "M", "a", "x", " ", "L", "a", "t", "e", "n", "c", "y", ":", " ", "0", "m", "s", "\n", "\n">>
           \o <<"3", ".", " ", "D", "E", "T", "E", "C", "T", "E", "D", " ", "A", "N", "O", "M", "A", "L", "I", "E", "S", ":", "\n", "[", "]", "\n">>

\* a text of white space, not empty, has been analyzed
C7_Witness ==
  /\ calls >= 1
  /\ origin = "caller"
  /\ raw_logs # <<>>
  /\ Blank(raw_logs)
  /\ report.status = "returned"

\* C8: masking an already masked message changes nothing.
C8_MaskIdempotent ==
  (probe.fn = "mask" /\ probe.passes = 2) => probe.again = probe.once

\* the first pass changed the message and the second pass has run
C8_Witness ==
  /\ probe.fn = "mask"
  /\ probe.passes = 2
  /\ probe.once # probe.message
  /\ Contains(probe.once, <<"{", "U", "U", "I", "D", "}">>)

\* the line is "[T] [ERROR] Connection failed to db-N" with a decimal N
BurstLine(l) ==
  /\ Len(l) > Len(BurstPrefix)
  /\ SubSeq(l, 1, Len(BurstPrefix)) = BurstPrefix
  /\ \A k \in (Len(BurstPrefix) + 1)..Len(l) : l[k] \in Digit

\* the instance was constructed from n >= 1 such lines
BurstInput ==
  /\ origin = "caller"
  /\ lines # <<>>
  /\ raw_logs = JoinWith(lines, <<NL>>)
  /\ \A k \in 1..Len(lines) : BurstLine(lines[k])

\* no N has 35 or 36 digits
NoUuidLongNumber ==
  \A k \in 1..Len(lines) : Len(lines[k]) - Len(BurstPrefix) \notin {35, 36}

\* one cluster with count n and the pattern with {NUM}, health max(0, 100 - 5n)
OneNumCluster ==
  /\ report.status = "returned"
  /\ Len(clusters) = 1
  /\ clusters[1].count = Len(lines)
  /\ clusters[1].pattern = <<"C", "o", "n", "n", "e", "c", "t", "i", "o", "n", " ", "f", "a", "i", "l", "e", "d", " ", "t", "o", " ", "d", "b", "-", "{", "N", "U", "M", "}">>
  /\ report.health_score =
       (IF 5 * Len(lines) > 100 THEN 0 ELSE 100 - 5 * Len(lines))

AnomaliesOf(words) ==
  {k \in 1..Len(report.anomalies) : StartsAt(report.anomalies[k], 1, words)}

\* C10: the anomalies of a returned report are one CPU-spike entry exactly
\* when max_cpu > 80 and one high-latency entry exactly when
\* max_latency > 2000, each with the maximum of its series, and nothing else.
C10_AnomaliesFromMaxima ==
  HasReport =>
    LET m == report.metrics_summary
    IN  /\ m.max_cpu = (IF m.cpu_series = <<>> THEN 0 ELSE Max(m.cpu_series))
        /\ m.max_latency =
             (IF m.latency_series = <<>> THEN 0 ELSE Max(m.latency_series))
        /\ Cardinality(AnomaliesOf(<<"C", "r", "i", "t", "i", "c", "a", "l", " ", "C", "P", "U", " ", "S", "p", "i", "k", "e">>)) =
             (IF m.max_cpu > 80 THEN 1 ELSE 0)
        /\ Cardinality(AnomaliesOf(<<"H", "i", "g", "h", " ", "L", "a", "t", "e", "n", "c", "y">>)) =
             (IF m.max_latency > 2000 THEN 1 ELSE 0)
        /\ Len(report.anomalies) =
             Cardinality(AnomaliesOf(<<"C", "r", "i", "t", "i", "c", "a", "l", " ", "C", "P", "U", " ", "S", "p", "i", "k", "e">>))
               + Cardinality(AnomaliesOf(<<"H", "i", "g", "h", " ", "L", "a", "t", "e", "n", "c", "y">>))
        /\ \A k \in AnomaliesOf(<<"C", "r", "i", "t", "i", "c", "a", "l", " ", "C", "P", "U", " ", "S", "p", "i", "k", "e">>) :
             report.anomalies[k] =
               <<"C", "r", "i", "t", "i", "c", "a", "l", " ", "C", "P", "U", " ", "S", "p", "i", "k", "e", " ", "d", "e", "t", "e", "c", "t", "e", "d", ":", " ">> \o DigitsOf(m.max_cpu) \o <<"%">>
        /\ \A k \in AnomaliesOf(<<"H", "i", "g", "h", " ", "L", "a", "t", "e", "n", "c", "y">>) :
             report.anomalies[k] =
               <<"H", "i", "g", "h", " ", "L", "a", "t", "e", "n", "c", "y", " ", "d", "e", "t", "e", "c", "t", "e", "d", ":", " ">> \o DigitsOf(m.max_latency) \o <<"m", "s">>

\* max_cpu is exactly 80 and a memory value is above both thresholds: the
\* only anomaly is the latency above 2000
C10_Witness ==
  /\ HasReport
  /\ report.metrics_summary.max_cpu = 80
  /\ \E k \in 1..Len(report.metrics_summary.memory_series) :
       report.metrics_summary.memory_series[k] > 2000
  /\ report.metrics_summary.max_latency > 2000
  /\ Len(report.anomalies) = 1

\* some of the clusters cs has the level ERROR and a pattern with "database"
\* in it, in any case of letters
DatabaseError(cs) ==
  \E k \in 1..Len(cs) :
    cs[k].level = <<"E", "R", "R", "O", "R">> /\ Contains(Lower(cs[k].pattern), <<"d", "a", "t", "a", "b", "a", "s", "e">>)

\* C11 (as amended): correlations holds exactly one statement, the fixed
\* one, when the report has a high-latency anomaly and one of the at most 20
\* clusters _cluster_logs returned has the level ERROR and a pattern
\* containing "database" in any case of letters; otherwise it is empty.
C11_OneCorrelation ==
  HasReport =>
    report.correlations =
      (IF AnomaliesOf(<<"H", "i", "g", "h", " ", "L", "a", "t", "e", "n", "c", "y">>) # {} /\ DatabaseError(clusters)
       THEN << <<"S", "t", "r", "o", "n", "g", " ", "c", "o", "r", "r", "e", "l", "a", "t", "i", "o", "n", ":", " ", "D", "a", "t", "a", "b", "a", "s", "e", " ", "E", "r", "r", "o", "r", "s", " ", "a", "r", "e", " ", "l", "i", "k", "e", "l", "y", " ", "c", "a", "u", "s", "i", "n", "g", " ", "L", "a", "t", "e", "n", "c", "y", " ", "s", "p", "i", "k", "e", "s", ".">> >>
       ELSE <<>>)

\* 20 clusters were returned, the last of them the one about the database,
\* written in lower case, and the statement is there
C11_Witness ==
  /\ HasReport
  /\ Len(clusters) = 20
  /\ Contains(clusters[20].pattern, <<"d", "a", "t", "a", "b", "a", "s", "e">>)
  /\ clusters[20].level = <<"E", "R", "R", "O", "R">>
  /\ AnomaliesOf(<<"H", "i", "g", "h", " ", "L", "a", "t", "e", "n", "c", "y">>) # {}
  /\ Len(report.correlations) = 1

\* the clusters of all signatures, before the cut to the 20 most frequent
AllClusters ==
  Bind(ClusterDict(parsed_data), LAMBDA d : Tuple([k \in 1..Len(d) |-> d[k].value]))

\* C11 as stated: the same with any cluster of the run, returned or not
C11_AsStated ==
  HasReport =>
    Len(report.correlations) =
      (IF AnomaliesOf(<<"H", "i", "g", "h", " ", "L", "a", "t", "e", "n", "c", "y">>) # {} /\ DatabaseError(AllClusters)
       THEN 1 ELSE 0)

\* the non-blank lines of the text the instance was constructed from
InputLines == SelectSeq(SplitLines(raw_logs), LAMBDA l : Strip(l) # <<>>)

\* the text is not valid JSON and each non-blank line of it has the shape
\* [TIMESTAMP] [LEVEL] MESSAGE or [TIMESTAMP] [LEVEL] [COMPONENT] MESSAGE
RawLogInput ==
  /\ origin = "caller"
  /\ ~json_loads(raw_logs).ok
  /\ InputLines # <<>>
  /\ \A k \in 1..Len(InputLines) : LogPatternMatch(Strip(InputLines[k])).ok

\* entry k has the timestamp, level and message of input line k
KeepsLine(k) ==
  LET m == LogPatternMatch(Strip(InputLines[k]))
  IN  /\ parsed_data[k].timestamp = m.timestamp
      /\ parsed_data[k].level = m.level
      /\ parsed_data[k].message = m.message

\* C12 as stated: after one analyze() on raw log text, there is one entry
\* per non-blank input line, with that line's timestamp, level and message,
\* and parsed_entries is the number of these lines.
C12_LineForLine ==
  (calls = 1 /\ RawLogInput) =>
    /\ Len(parsed_data) = Len(InputLines)
    /\ \A k \in 1..Len(InputLines) : KeepsLine(k)
    /\ report.status = "returned" => report.parsed_entries = Len(InputLines)

\* C13 as stated, first part: normalizing the normalized text changes nothing.
C13_NormalizeIdempotent ==
  (probe.fn = "twice" /\ probe.twice.done) => probe.twice.value = probe.once.value

\* the second part: /api/analyze reports the same parsed_entries and
\* log_levels as the analyzer on the original text
C13_ApiAsDirect ==
  (probe.fn = "twice" /\ probe.api.done /\ probe.direct.done) =>
    probe.api.value = probe.direct.value

\* C13 as stated: normalizing twice gives what normalizing once gives, and
\* so /api/analyze, which normalizes twice, reports the same parsed_entries
\* and log_levels as AdvancedLogAnalyzer(x).analyze().
C13_TwiceIsHarmless == C13_NormalizeIdempotent /\ C13_ApiAsDirect

====
